---- MODULE Spec2Model ----
(***************************************************************************)
(* The insider dashboard of src/app.py (tab 2) as a state machine: one     *)
(* script run goes fetch_insider_data -> "Recent Insider Purchases" ->     *)
(* compute_most_bought -> drill down -> clustered portfolio loop.          *)
(* Data frames are records [cols, rows]; a row is a record of three cells. *)
(***************************************************************************)
EXTENDS Integers, Sequences, FiniteSets, TLC

\* ------------------------------------------------------------------ bounds
MaxRows == 5        \* rows of a table served by the CSV file or by OpenInsider
MaxDays == 2        \* trading days offered by the price history collaborator
MaxCalls == 3       \* calls of fetch_insider_data in one server life (SpecCache)
MaxTicks == 2       \* the clock stops after MaxTicks * TTL seconds (SpecCache)

\* ------------------------------------------------------- program constants
TTL == 3600         \* @st.cache_data(ttl=3600)
MinTrades == 3      \* df_counts["Buy Count"] >= 3

\* ------------------------------------------------------------------- cells
\* A "Trade Date" cell: the text read_csv produced, a parsed Timestamp (a day
\* number), NaT, or nothing when the column is absent.
StrCell(s) == [kind |-> "str", s |-> s, day |-> 0]
TsCell(d) == [kind |-> "ts", s |-> "", day |-> d]
NaT == [kind |-> "NaT", s |-> "", day |-> 0]
NoCell == [kind |-> "absent", s |-> "", day |-> 0]
NaN == "NaN"        \* a missing Ticker cell
NoText == ""        \* the cell of an absent text column

\* Calendar texts the model uses and the day each denotes (June 2024).
DateTexts == {"2024-06-06", "2024-06-07", "2024-06-08", "2024-06-09", "2024-06-10"}
DayOf(s) ==
    CASE s = "2024-06-06" -> 6
      [] s = "2024-06-07" -> 7
      [] s = "2024-06-08" -> 8
      [] s = "2024-06-09" -> 9
      [] s = "2024-06-10" -> 10
\* datetime.now(): the evaluation day of the run.
Today == DayOf("2024-06-10")

\* pd.to_datetime(cell, errors="coerce") on one cell.
ToDatetimeCoerce(c) ==
    IF c.kind = "str"
    THEN IF c.s \in DateTexts THEN TsCell(DayOf(c.s)) ELSE NaT
    ELSE c

\* ------------------------------------------------------------------ tables
AllCols == {"Ticker", "Trade Type", "Trade Date"}
ColumnSets == {AllCols, AllCols \ {"Trade Type"}, AllCols \ {"Trade Date"},
               AllCols \ {"Ticker"}}

\* pd.DataFrame(): no columns, no rows.
EmptyFrame == [cols |-> {}, rows |-> <<>>]

Row(t, ty, d) == [Ticker |-> t, TradeType |-> ty, TradeDate |-> StrCell(d)]

\* The rows a source may serve (identical rows may repeat in one table).
RowPool ==
    << Row("AAPL", "Purchase", "2024-06-09"),
       Row("AAPL", "Purchase", "2024-06-07"),
       Row("AAPL", "Sale", "2024-06-08"),
       Row("AAPL", "Purchase", "unknown"),
       Row("TSLA", "Purchase", "2024-06-08"),
       Row("TSLA", "Sale", "2024-06-06"),
       Row(NaN, "Purchase", "2024-06-09") >>

\* A row as it is read when only the columns in cols exist.
Project(r, cols) ==
    [Ticker |-> IF "Ticker" \in cols THEN r.Ticker ELSE NoText,
     TradeType |-> IF "Trade Type" \in cols THEN r.TradeType ELSE NoText,
     TradeDate |-> IF "Trade Date" \in cols THEN r.TradeDate ELSE NoCell]

IndexSeqs ==
    UNION { {s \in [1..n -> 1..Len(RowPool)] :
                \A i \in 1..(n - 1) : s[i] <= s[i + 1]} : n \in 0..MaxRows }

MakeTable(cols, s) ==
    [cols |-> cols, rows |-> [i \in 1..Len(s) |-> Project(RowPool[s[i]], cols)]]

\* Every table read_csv can return in the model.
Tables == {MakeTable(cols, s) : cols \in ColumnSets, s \in IndexSeqs}

IsEmpty(df) == Len(df.rows) = 0 \/ df.cols = {}

\* ------------------------------------------------------------ collaborators
\* insider_buys.csv on disk: absent, unreadable as CSV, or a table.
CsvFiles ==
    {[state |-> "missing", df |-> EmptyFrame], [state |-> "malformed", df |-> EmptyFrame]}
    \cup {[state |-> "present", df |-> t] : t \in Tables}

\* OpenInsider honours daysago: every dated row it serves lies in the window.
InWindow(r, days_back) ==
    r.TradeDate.kind = "str" /\ r.TradeDate.s \in DateTexts
        => DayOf(r.TradeDate.s) >= Today - days_back

RemoteReplies(days_back) ==
    {[state |-> "raise", df |-> EmptyFrame]}
    \cup {[state |-> "ok", df |-> t] :
            t \in {u \in Tables : \A i \in 1..Len(u.rows) : InWindow(u.rows[i], days_back)}}

\* ------------------------------------------------------- fetch_insider_data
\* Mutant: the missing file is not caught.
LoadMockData_Raises(csv) ==
    CASE csv.state = "present" -> [status |-> "ok", df |-> csv.df]
      [] OTHER -> [status |-> "raise", df |-> EmptyFrame]

LoadMockData(csv) ==
    CASE csv.state = "missing" -> [status |-> "ok", df |-> EmptyFrame]
      [] csv.state = "present" -> [status |-> "ok", df |-> csv.df]
      [] OTHER -> [status |-> "raise", df |-> EmptyFrame]

KeepPurchases(df) ==
    IF "Trade Type" \in df.cols
    THEN [df EXCEPT !.rows = SelectSeq(df.rows, LAMBDA r : r.TradeType = "Purchase")]
    ELSE df

ParseDates(df) ==
    IF "Trade Date" \in df.cols
    THEN [df EXCEPT !.rows =
            [i \in 1..Len(df.rows) |->
                [df.rows[i] EXCEPT !.TradeDate = ToDatetimeCoerce(@)]]]
    ELSE df

\* Mutant: the failure of the live fetch is not caught.
FetchInsiderBody_NoFallback(use_mock, remote, csv) ==
    IF use_mock
    THEN LoadMockData(csv) @@ [remote_fetches |-> 0, warned |-> FALSE]
    ELSE IF remote.state = "raise"
         THEN [status |-> "raise", df |-> EmptyFrame, remote_fetches |-> 1,
               warned |-> FALSE]
         ELSE [status |-> "ok", df |-> ParseDates(KeepPurchases(remote.df)),
               remote_fetches |-> 1, warned |-> FALSE]

\* The body of fetch_insider_data: what it returns, whether it raised, and how
\* many remote fetches it attempted.
FetchInsiderBody(use_mock, remote, csv) ==
    IF use_mock
    THEN LoadMockData(csv) @@ [remote_fetches |-> 0, warned |-> FALSE]
    ELSE IF remote.state = "raise"
         THEN LoadMockData(csv) @@ [remote_fetches |-> 1, warned |-> TRUE]
         ELSE [status |-> "ok", df |-> ParseDates(KeepPurchases(remote.df)),
               remote_fetches |-> 1, warned |-> FALSE]

\* ------------------------------------------------------------- sort_values
\* The model's date texts in lexicographic order (object columns sort as text).
TextOrder == <<"2024-06-06", "2024-06-07", "2024-06-08", "2024-06-09",
               "2024-06-10", "unknown">>
TextRank(s) == CHOOSE i \in 1..Len(TextOrder) : TextOrder[i] = s

SortKey(c) == IF c.kind = "ts" THEN c.day ELSE TextRank(c.s)

\* Insert r behind every row whose key is not smaller (ties keep input order).
InsertDesc(sorted, r) ==
    LET ahead == {i \in 1..Len(sorted) :
                    SortKey(sorted[i].TradeDate) >= SortKey(r.TradeDate)}
        n == Cardinality(ahead)
    IN  SubSeq(sorted, 1, n) \o <<r>> \o SubSeq(sorted, n + 1, Len(sorted))

RECURSIVE SortDesc(_)
SortDesc(rows) ==
    IF rows = <<>> THEN <<>>
    ELSE InsertDesc(SortDesc(SubSeq(rows, 1, Len(rows) - 1)), rows[Len(rows)])

\* df.sort_values("Trade Date", ascending=False): descending and stable for
\* tables this small, null dates last.
SortValuesDesc(df) ==
    [df EXCEPT !.rows =
        SortDesc(SelectSeq(df.rows, LAMBDA r : r.TradeDate.kind # "NaT"))
        \o SelectSeq(df.rows, LAMBDA r : r.TradeDate.kind = "NaT")]

\* ----------------------------------------------------- compute_most_bought
\* value_counts(): one tally per distinct non-null ticker, in order of first
\* appearance, then ordered by falling count.
TallyRow(counts, t) ==
    IF t = NaN THEN counts
    ELSE IF \E i \in 1..Len(counts) : counts[i].Ticker = t
         THEN [i \in 1..Len(counts) |->
                 IF counts[i].Ticker = t
                 THEN [counts[i] EXCEPT !.BuyCount = @ + 1] ELSE counts[i]]
         ELSE Append(counts, [Ticker |-> t, BuyCount |-> 1])

RECURSIVE Tally(_)
Tally(rows) ==
    IF rows = <<>> THEN <<>>
    ELSE TallyRow(Tally(SubSeq(rows, 1, Len(rows) - 1)), rows[Len(rows)].Ticker)

InsertByCount(sorted, e) ==
    LET n == Cardinality({i \in 1..Len(sorted) : sorted[i].BuyCount >= e.BuyCount})
    IN  SubSeq(sorted, 1, n) \o <<e>> \o SubSeq(sorted, n + 1, Len(sorted))

RECURSIVE SortCounts(_)
SortCounts(cs) ==
    IF cs = <<>> THEN <<>>
    ELSE InsertByCount(SortCounts(SubSeq(cs, 1, Len(cs) - 1)), cs[Len(cs)])

\* Mutant: identical rows are counted once.
RECURSIVE DropDuplicates(_)
DropDuplicates(rows) ==
    IF rows = <<>> THEN <<>>
    ELSE LET front == DropDuplicates(SubSeq(rows, 1, Len(rows) - 1))
             last == rows[Len(rows)]
         IN  IF \E i \in 1..Len(front) : front[i] = last THEN front
             ELSE Append(front, last)

ValueCounts_Dedup(rows) == SortCounts(Tally(DropDuplicates(rows)))

ValueCounts(rows) == SortCounts(Tally(rows))

ComputeMostBought(df) ==
    IF IsEmpty(df) \/ "Ticker" \notin df.cols THEN <<>>
    ELSE ValueCounts(df.rows)

\* Mutant: the threshold is exclusive.
ClusteredOf_Strict(counts) ==
    LET hit == SelectSeq(counts, LAMBDA e : e.BuyCount > MinTrades)
    IN  [i \in 1..Len(hit) |-> hit[i].Ticker]

\* df_counts[df_counts["Buy Count"] >= 3]["Ticker"].tolist()
ClusteredOf(counts) ==
    LET hit == SelectSeq(counts, LAMBDA e : e.BuyCount >= MinTrades)
    IN  [i \in 1..Len(hit) |-> hit[i].Ticker]

\* -------------------------------------------------- get_filings_for_ticker
GetFilingsForTicker(df, ticker) ==
    LET sub == [df EXCEPT !.rows = SelectSeq(df.rows, LAMBDA r : r.Ticker = ticker)]
    IN  IF "Trade Date" \in sub.cols THEN SortValuesDesc(sub) ELSE sub

\* -------------------------------------------------------------- yfinance
\* Closing prices in thousandths of a dollar.
Prices == {1005, 3000}

\* yf.download(ticker, start, end): it raises, or returns the closes of the
\* trading days it knows in [start, end); a history is a function day -> close.
Histories(start, end) ==
    UNION { [D -> Prices] : D \in {E \in SUBSET (start..(end - 1)) : Cardinality(E) <= MaxDays} }

NoHistory == [d \in {} |-> 0]
NoReply == [state |-> "none", hist |-> NoHistory]

YfReplies(start, end) ==
    {[state |-> "raise", hist |-> NoHistory]}
    \cup {[state |-> "ok", hist |-> h] : h \in Histories(start, end)}

\* ---------------------------------------------- simulate_returns_for_ticker
\* round(x, 0) of the rational n/d (d > 0), ties to even.
RoundHalfEven(n, d) ==
    LET q == n \div d
        r == n % d
    IN  IF 2 * r < d THEN q
        ELSE IF 2 * r > d THEN q + 1
        ELSE IF q % 2 = 0 THEN q ELSE q + 1

RECURSIVE SumDays(_)
SumDays(rows) ==
    IF rows = <<>> THEN 0 ELSE rows[1].TradeDate.day + SumDays(Tail(rows))

\* Lines 133-136, up to the call of yf.download: the early return, the
\* TypeError of .mean() on a text column (outside the try), a NaT mean whose
\* strftime raises inside the try, or the start date of the download.
SimPrefix(df_filings) ==
    IF IsEmpty(df_filings) \/ "Trade Date" \notin df_filings.cols
    THEN [stage |-> "empty", avg |-> 0]
    ELSE IF \E i \in 1..Len(df_filings.rows) : df_filings.rows[i].TradeDate.kind = "str"
    THEN [stage |-> "raise", avg |-> 0]
    ELSE LET dated == SelectSeq(df_filings.rows, LAMBDA r : r.TradeDate.kind = "ts")
         IN  IF dated = <<>>
             THEN [stage |-> "caught", avg |-> 0]
             ELSE [stage |-> "download", avg |-> SumDays(dated) \div Len(dated)]

NoRow == [Ticker |-> NoText, Avg_Trade_Date |-> 0, Entry_Price |-> 0,
          Latest_Price |-> 0, Return |-> 0]

FirstDay(hist) == CHOOSE d \in DOMAIN hist : \A e \in DOMAIN hist : d <= e
LastDay(hist) == CHOOSE d \in DOMAIN hist : \A e \in DOMAIN hist : d >= e

\* Mutant: the gain is divided by the latest price.
ReturnRow_OverLatest(ticker, avg, hist) ==
    LET entry == hist[FirstDay(hist)]
        latest == hist[LastDay(hist)]
    IN  [Ticker |-> ticker, Avg_Trade_Date |-> avg,
         Entry_Price |-> RoundHalfEven(entry, 10),
         Latest_Price |-> RoundHalfEven(latest, 10),
         Return |-> RoundHalfEven((latest - entry) * 10000, latest)]

\* Return (%) in hundredths of a percent, prices in cents.
ReturnRow(ticker, avg, hist) ==
    LET entry == hist[FirstDay(hist)]
        latest == hist[LastDay(hist)]
    IN  [Ticker |-> ticker, Avg_Trade_Date |-> avg,
         Entry_Price |-> RoundHalfEven(entry, 10),
         Latest_Price |-> RoundHalfEven(latest, 10),
         Return |-> RoundHalfEven((latest - entry) * 10000, entry)]

\* status "raise": the exception leaves the function; "empty": pd.DataFrame().
SimulateReturnsForTicker(df_filings, reply) ==
    LET pre == SimPrefix(df_filings)
    IN  CASE pre.stage = "empty" -> [status |-> "empty", row |-> NoRow]
          [] pre.stage = "raise" -> [status |-> "raise", row |-> NoRow]
          [] pre.stage = "caught" -> [status |-> "empty", row |-> NoRow]
          [] OTHER ->
                IF reply.state # "ok" \/ DOMAIN reply.hist = {}
                THEN [status |-> "empty", row |-> NoRow]
                ELSE [status |-> "row",
                      row |-> ReturnRow(df_filings.rows[1].Ticker, pre.avg, reply.hist)]

\* What the price collaborator may answer to the call made for df_filings.
RepliesFor(df_filings) ==
    IF SimPrefix(df_filings).stage = "download"
    THEN YfReplies(SimPrefix(df_filings).avg, Today)
    ELSE {NoReply}

\* ------------------------------------------------------------------ state
VARIABLES
    pc,             \* position of the script run
    crashSite,      \* where an uncaught exception left the script, or "none"
    use_mock, days_back, min_value, chosen_ticker,      \* widget values
    clock,          \* seconds since the server started
    cache,          \* st.cache_data entries of fetch_insider_data, by arguments
    calls,          \* history of the calls of fetch_insider_data
    fetched,        \* what the last run of the body of fetch_insider_data read
    df_insiders, df_counts, clustered, idx, portfolio_list,
    simCalls,       \* calls of simulate_returns_for_ticker in this run
    lastSim         \* the filings, the reply and the result of the last of them

vars == <<pc, crashSite, use_mock, days_back, min_value, chosen_ticker, clock,
          cache, calls, fetched, df_insiders, df_counts, clustered, idx,
          portfolio_list, simCalls, lastSim>>

widgets == <<use_mock, days_back, min_value>>
tables == <<df_insiders, df_counts, clustered, idx, portfolio_list>>
sims == <<simCalls, lastSim>>

\* The slider and number_input values the model tries (defaults 3 and 10000).
DaysBackChoices == {2, 3}
MinValueChoices == {10000}
Keys == BOOLEAN \X DaysBackChoices \X MinValueChoices

NoEntry == [full |-> FALSE, df |-> EmptyFrame, created |-> 0]
NoFetch == [path |-> "none", csv |-> "unread", csv_df |-> EmptyFrame,
            remote |-> "unasked", remote_fetches |-> 0, status |-> "none"]
NoSim == [filings |-> EmptyFrame, reply |-> NoReply,
          res |-> [status |-> "empty", row |-> NoRow], site |-> "none"]

\* The state a script run starts from, the cache and the clock left alone.
RunStart ==
    /\ pc' = "tab1"
    /\ crashSite' = "none"
    /\ chosen_ticker' = ""
    /\ fetched' = NoFetch
    /\ df_insiders' = EmptyFrame
    /\ df_counts' = <<>>
    /\ clustered' = <<>>
    /\ idx' = 1
    /\ portfolio_list' = <<>>
    /\ simCalls' = 0
    /\ lastSim' = NoSim

\* A run begins with nothing cached (the server has just started, or whatever
\* was stored has expired); the widgets hold any of the values tried.
Init ==
    /\ pc = "tab1"
    /\ crashSite = "none"
    /\ use_mock \in BOOLEAN
    /\ days_back \in DaysBackChoices
    /\ min_value \in MinValueChoices
    /\ chosen_ticker = ""
    /\ clock = 0
    /\ cache = [k \in Keys |-> NoEntry]
    /\ calls = <<>>
    /\ fetched = NoFetch
    /\ df_insiders = EmptyFrame
    /\ df_counts = <<>>
    /\ clustered = <<>>
    /\ idx = 1
    /\ portfolio_list = <<>>
    /\ simCalls = 0
    /\ lastSim = NoSim

\* --------------------------------------------------------------- tab 1
\* Tab 1 runs first; requests.get is not guarded, so it may end the run.
Tab1Ok ==
    /\ pc = "tab1"
    /\ pc' = "fetch"
    /\ UNCHANGED <<crashSite, widgets, chosen_ticker, clock, cache, calls, fetched,
                   tables, sims>>

Tab1Raise ==
    /\ pc = "tab1"
    /\ pc' = "crashed"
    /\ crashSite' = "fetch_intraday_av"
    /\ UNCHANGED <<widgets, chosen_ticker, clock, cache, calls, fetched, tables, sims>>

\* ------------------------------------------- fetch_insider_data (line 218)
Key == <<use_mock, days_back, min_value>>

\* Mutant: entries never expire.
CacheFresh_NoExpiry(entry, now) == entry.full

\* @st.cache_data(ttl=3600): an entry answers until ttl seconds after it was stored.
CacheFresh(entry, now) == entry.full /\ now < entry.created + TTL

CallRecord(executed, res) ==
    [key |-> Key, time |-> clock, executed |-> executed, status |-> res.status,
     df |-> res.df, remote_fetches |-> res.remote_fetches, warned |-> res.warned]

FetchHit ==
    /\ pc = "fetch"
    /\ CacheFresh(cache[Key], clock)
    /\ df_insiders' = cache[Key].df
    /\ calls' = Append(calls, CallRecord(FALSE, [status |-> "ok", df |-> cache[Key].df,
                                                 remote_fetches |-> 0, warned |-> FALSE]))
    /\ pc' = "recent"
    /\ UNCHANGED <<crashSite, widgets, chosen_ticker, clock, cache, fetched, df_counts,
                   clustered, idx, portfolio_list, sims>>

\* The body runs with the remote reply and the file state given; its result is
\* stored in the cache unless it raised.
RunBody(path, remote, csv) ==
    LET res == FetchInsiderBody(use_mock, remote, csv)
    IN  /\ ~CacheFresh(cache[Key], clock)
        /\ fetched' = [path |-> path, csv |-> csv.state, csv_df |-> csv.df,
                       remote |-> remote.state,
                       remote_fetches |-> res.remote_fetches, status |-> res.status]
        /\ calls' = Append(calls, CallRecord(TRUE, res))
        /\ IF res.status = "raise"
           THEN /\ pc' = "crashed"
                /\ crashSite' = "load_mock_data"
                /\ UNCHANGED <<cache, df_insiders>>
           ELSE /\ pc' = "recent"
                /\ cache' = [cache EXCEPT ![Key] =
                                [full |-> TRUE, df |-> res.df, created |-> clock]]
                /\ df_insiders' = res.df
                /\ UNCHANGED crashSite
        /\ UNCHANGED <<widgets, chosen_ticker, clock, df_counts, clustered, idx,
                       portfolio_list, sims>>

Unread == [state |-> "unread", df |-> EmptyFrame]
Unasked == [state |-> "unasked", df |-> EmptyFrame]

FetchMock(files) ==
    /\ pc = "fetch"
    /\ use_mock
    /\ \E csv \in files : RunBody("mock", Unasked, csv)

FetchLive(replies) ==
    /\ pc = "fetch"
    /\ ~use_mock
    /\ \E remote \in replies : remote.state = "ok" /\ RunBody("live", remote, Unread)

FetchFallback(replies, files) ==
    /\ pc = "fetch"
    /\ ~use_mock
    /\ \E remote \in replies : remote.state = "raise" /\
          \E csv \in files : RunBody("fallback", remote, csv)

\* ------------------------------------- "Recent Insider Purchases" (220-226)
ShowRecent ==
    /\ pc = "recent"
    /\ df_insiders' = IF ~IsEmpty(df_insiders) /\ "Trade Date" \in df_insiders.cols
                      THEN SortValuesDesc(df_insiders) ELSE df_insiders
    /\ pc' = "count"
    /\ UNCHANGED <<crashSite, widgets, chosen_ticker, clock, cache, calls, fetched,
                   df_counts, clustered, idx, portfolio_list, sims>>

\* ------------------------------------ "Top Insider-Bought Tickers" (228-236)
Count ==
    /\ pc = "count"
    /\ df_counts' = ComputeMostBought(df_insiders)
    /\ pc' = IF df_counts' = <<>> THEN "cluster" ELSE "drill"
    /\ UNCHANGED <<crashSite, widgets, chosen_ticker, clock, cache, calls, fetched,
                   df_insiders, clustered, idx, portfolio_list, sims>>

\* ------------------------------------------------------ drill down (237-267)
DrillSkip ==
    /\ pc = "drill"
    /\ chosen_ticker' = ""
    /\ pc' = "cluster"
    /\ UNCHANGED <<crashSite, widgets, clock, cache, calls, fetched, tables, sims>>

DrillDown ==
    /\ pc = "drill"
    /\ \E i \in 1..Len(df_counts) :
         LET filings == GetFilingsForTicker(df_insiders, df_counts[i].Ticker)
         IN  \E reply \in RepliesFor(filings) :
               LET res == SimulateReturnsForTicker(filings, reply)
               IN  /\ chosen_ticker' = df_counts[i].Ticker
                   /\ simCalls' = simCalls + 1
                   /\ lastSim' = [filings |-> filings, reply |-> reply, res |-> res,
                                  site |-> "drill"]
                   /\ IF res.status = "raise"
                      THEN pc' = "crashed" /\ crashSite' = "drill"
                      ELSE pc' = "cluster" /\ UNCHANGED crashSite
    /\ UNCHANGED <<widgets, clock, cache, calls, fetched, tables>>

\* ------------------------- "Simulated Portfolio: Clustered Buys" (269-285)
Cluster ==
    /\ pc = "cluster"
    /\ clustered' = ClusteredOf(df_counts)
    /\ portfolio_list' = <<>>
    /\ idx' = 1
    /\ pc' = IF clustered' # <<>> THEN "loop" ELSE "done"
    /\ UNCHANGED <<crashSite, widgets, chosen_ticker, clock, cache, calls, fetched,
                   df_insiders, df_counts, sims>>

LoopStep ==
    /\ pc = "loop"
    /\ idx <= Len(clustered)
    /\ LET df_t == GetFilingsForTicker(df_insiders, clustered[idx])
       IN  \E reply \in RepliesFor(df_t) :
             LET ret == SimulateReturnsForTicker(df_t, reply)
             IN  /\ simCalls' = simCalls + 1
                 /\ lastSim' = [filings |-> df_t, reply |-> reply, res |-> ret,
                                site |-> "portfolio"]
                 /\ IF ret.status = "raise"
                    THEN /\ pc' = "crashed"
                         /\ crashSite' = "portfolio"
                         /\ UNCHANGED <<idx, portfolio_list>>
                    ELSE /\ portfolio_list' = IF ret.status = "row"
                                              THEN Append(portfolio_list, ret.row)
                                              ELSE portfolio_list
                         /\ idx' = idx + 1
                         /\ UNCHANGED <<pc, crashSite>>
    /\ UNCHANGED <<widgets, chosen_ticker, clock, cache, calls, fetched, df_insiders,
                   df_counts, clustered>>

LoopEnd ==
    /\ pc = "loop"
    /\ idx > Len(clustered)
    /\ pc' = "done"
    /\ UNCHANGED <<crashSite, widgets, chosen_ticker, clock, cache, calls, fetched,
                   tables, sims>>

\* One script run on a freshly started server.
Next ==
    \/ Tab1Ok
    \/ Tab1Raise
    \/ FetchMock(CsvFiles)
    \/ FetchLive(RemoteReplies(days_back))
    \/ FetchFallback(RemoteReplies(days_back), CsvFiles)
    \/ ShowRecent
    \/ Count
    \/ DrillSkip
    \/ DrillDown
    \/ Cluster
    \/ LoopStep
    \/ LoopEnd

Spec == Init /\ [][Next]_vars

\* ------------------------------------------------- reruns and the cache TTL
\* A widget change reruns the script from the top, wherever the last run is.
Rerun ==
    /\ pc \notin {"tab1", "fetch"}
    /\ Len(calls) < MaxCalls
    /\ use_mock' \in BOOLEAN
    /\ days_back' \in DaysBackChoices
    /\ min_value' \in MinValueChoices
    /\ RunStart
    /\ UNCHANGED <<clock, cache, calls>>

\* Time passes between runs.
Advances == {TTL \div 2}
Horizon == MaxTicks * TTL

Tick ==
    /\ pc \in {"recent", "crashed"}
    /\ \E d \in Advances : clock + d <= Horizon /\ clock' = clock + d
    /\ UNCHANGED <<pc, crashSite, widgets, chosen_ticker, cache, calls, fetched,
                   tables, sims>>

\* What the sources serve while the server is watched over several runs: the
\* CSV file holds one filing or cannot be read, OpenInsider is down or serves
\* another filing.
CacheFiles ==
    {[state |-> "present", df |-> MakeTable(AllCols, <<1>>)],
     [state |-> "malformed", df |-> EmptyFrame]}
CacheReplies ==
    {[state |-> "raise", df |-> EmptyFrame],
     [state |-> "ok", df |-> MakeTable(AllCols, <<5>>)]}

\* Successive runs of the script up to its call of fetch_insider_data (a run
\* that ends in tab 1 makes no call and leaves the cache as it was).
NextCache ==
    \/ Tab1Ok
    \/ FetchHit
    \/ FetchMock(CacheFiles)
    \/ FetchLive(CacheReplies)
    \/ FetchFallback(CacheReplies, CacheFiles)
    \/ Rerun
    \/ Tick

SpecCache == Init /\ [][NextCache]_vars

\* ------------------------------------------------------------- properties
\* Positions of the run at which a table is loaded, counted, clustered.
Loaded ==
    pc \in {"recent", "count", "drill", "cluster", "loop", "done"}
    \/ crashSite \in {"drill", "portfolio"}
Counted ==
    pc \in {"drill", "cluster", "loop", "done"} \/ crashSite \in {"drill", "portfolio"}
Listed == pc \in {"loop", "done"} \/ crashSite = "portfolio"

TickerNames == {RowPool[k].Ticker : k \in 1..Len(RowPool)} \ {NaN}
RowsWith(df, t) == {j \in 1..Len(df.rows) : df.rows[j].Ticker = t}
Parsable(c) == c.kind = "ts" \/ (c.kind = "str" /\ c.s \in DateTexts)
DateDay(c) == IF c.kind = "ts" THEN c.day ELSE DayOf(c.s)
AbsVal(x) == IF x < 0 THEN -x ELSE x

RECURSIVE SumCounts(_)
SumCounts(cs) == IF cs = <<>> THEN 0 ELSE cs[1].BuyCount + SumCounts(Tail(cs))

\* C1: a price-lookup failure for a clustered ticker never leaves the portfolio
\* loop as an uncaught exception: every call of simulate_returns_for_ticker made
\* by the loop returns a row or an empty result.
C1_LookupNeverFatal ==
    /\ crashSite # "portfolio"
    /\ lastSim.site = "portfolio" => lastSim.res.status \in {"row", "empty"}

\* C2: whatever the source of the table, the Buy Count of a ticker is the number
\* of its rows whose transaction type is exactly "Purchase".
C2_OnlyPurchasesCounted ==
    (Counted /\ "Trade Type" \in df_insiders.cols) =>
        \A i \in 1..Len(df_counts) :
            df_counts[i].BuyCount =
                Cardinality({j \in RowsWith(df_insiders, df_counts[i].Ticker) :
                                df_insiders.rows[j].TradeType = "Purchase"})

\* C3: whatever the source of the table, every dated row that counts toward a
\* ticker's Buy Count is dated on or after Today - days_back.
C3_OnlyWindowRowsCounted ==
    (Counted /\ df_insiders.cols = AllCols) =>
        \A i \in 1..Len(df_counts) :
            \A j \in RowsWith(df_insiders, df_counts[i].Ticker) :
                Parsable(df_insiders.rows[j].TradeDate) =>
                    DateDay(df_insiders.rows[j].TradeDate) >= Today - days_back

C5_UnparsableDropped ==
    (Loaded /\ "Trade Date" \in df_insiders.cols) =>
        \A j \in 1..Len(df_insiders.rows) : Parsable(df_insiders.rows[j].TradeDate)

\* C6: a missing mock file loads as an empty table without an error, and with an
\* empty table loaded the counts and the clustered list are empty, no return is
\* simulated and no step of the dashboard raises.
C6_EmptyTableIsValid ==
    /\ fetched.csv = "missing" =>
          fetched.status = "ok" /\ crashSite = "none" /\ df_insiders = EmptyFrame
    /\ (Loaded /\ IsEmpty(df_insiders)) =>
          /\ pc \notin {"crashed", "drill", "loop"}
          /\ crashSite = "none"
          /\ df_counts = <<>>
          /\ clustered = <<>>
          /\ portfolio_list = <<>>
          /\ simCalls = 0

C6_Witness ==
    /\ pc = "done"
    /\ fetched.path = "mock"
    /\ fetched.csv = "missing"
    /\ IsEmpty(df_insiders)
    /\ simCalls = 0

\* What load_mock_data gives for the file state the body read, stated on the
\* record of the call.
ReturnsTheMockTable(call) ==
    CASE fetched.csv = "missing" -> call.status = "ok" /\ call.df = EmptyFrame
      [] fetched.csv = "present" -> call.status = "ok" /\ call.df = fetched.csv_df
      [] fetched.csv = "malformed" -> call.status = "raise"
      [] OTHER -> FALSE

\* C7: with use_mock the body attempts no remote fetch and returns the local mock
\* table; without it, a remote fetch that raises is answered with what
\* load_mock_data returns, the exception of the fetch not leaving the function.
C7_FetchFallsBackToMock ==
    fetched.path # "none" =>
        LET call == calls[Len(calls)]
        IN  /\ use_mock =>
                /\ fetched.remote_fetches = 0
                /\ fetched.remote = "unasked"
                /\ ReturnsTheMockTable(call)
            /\ (~use_mock /\ fetched.remote = "raise") =>
                /\ fetched.remote_fetches = 1
                /\ ReturnsTheMockTable(call)
            /\ call.status = "raise" => fetched.csv = "malformed"

C7_Witness ==
    /\ pc = "recent"
    /\ ~use_mock
    /\ fetched.remote = "raise"
    /\ fetched.csv = "present"
    /\ Len(fetched.csv_df.rows) > 0
    /\ df_insiders = fetched.csv_df

\* C8 as stated: the reported return is exactly (latest - entry) / entry * 100
\* with entry the close of the average trade date itself.
C8_ExactReturnAtAvgDate ==
    lastSim.res.status = "row" =>
        LET hist == lastSim.reply.hist
            row == lastSim.res.row
        IN  /\ row.Avg_Trade_Date \in DOMAIN hist
            /\ row.Return * hist[row.Avg_Trade_Date]
                 = (hist[LastDay(hist)] - hist[row.Avg_Trade_Date]) * 10000

\* C8 amended: whenever yf.download answers with a non-empty history, the result
\* is a row whose return is (latest - entry) / entry * 100 rounded to two
\* decimals, entry being the first close on or after the average trade date (the
\* mean of the parsed dates, cut to a day) and latest the last close; the two
\* prices are reported rounded to cents.
C8_RoundedReturnFromFirstClose ==
    (lastSim.reply.state = "ok" /\ DOMAIN lastSim.reply.hist # {}) =>
        LET hist == lastSim.reply.hist
            row == lastSim.res.row
            rows == lastSim.filings.rows
            dated == {j \in 1..Len(rows) : rows[j].TradeDate.kind = "ts"}
            days == SumDays(SelectSeq(rows, LAMBDA r : r.TradeDate.kind = "ts"))
            first == CHOOSE d \in DOMAIN hist : \A e \in DOMAIN hist : d <= e
            last == CHOOSE d \in DOMAIN hist : \A e \in DOMAIN hist : e <= d
        IN  /\ lastSim.res.status = "row"
            /\ row.Ticker = rows[1].Ticker
            /\ row.Avg_Trade_Date * Cardinality(dated) <= days
            /\ days < (row.Avg_Trade_Date + 1) * Cardinality(dated)
            /\ row.Avg_Trade_Date <= first
            /\ 2 * AbsVal(row.Return * hist[first] - (hist[last] - hist[first]) * 10000)
                 <= hist[first]
            /\ 2 * AbsVal(row.Entry_Price * 10 - hist[first]) <= 10
            /\ 2 * AbsVal(row.Latest_Price * 10 - hist[last]) <= 10

C8_Witness ==
    /\ lastSim.res.status = "row"
    /\ lastSim.site = "portfolio"
    /\ lastSim.res.row.Avg_Trade_Date \notin DOMAIN lastSim.reply.hist
    /\ LET hist == lastSim.reply.hist
       IN  lastSim.res.row.Return * hist[FirstDay(hist)]
             # (hist[LastDay(hist)] - hist[FirstDay(hist)]) * 10000

\* C9: with a Ticker column, compute_most_bought returns one entry per distinct
\* ticker, its Buy Count the number of rows carrying that ticker, identical rows
\* counted each; the counts sum to the number of rows that carry a ticker.
C9_EveryRowCounted ==
    (Counted /\ "Ticker" \in df_insiders.cols) =>
        /\ \A i, k \in 1..Len(df_counts) :
              df_counts[i].Ticker = df_counts[k].Ticker => i = k
        /\ \A i \in 1..Len(df_counts) :
              df_counts[i].BuyCount
                = Cardinality(RowsWith(df_insiders, df_counts[i].Ticker))
        /\ \A j \in 1..Len(df_insiders.rows) :
              df_insiders.rows[j].Ticker # NaN =>
                  \E i \in 1..Len(df_counts) :
                      df_counts[i].Ticker = df_insiders.rows[j].Ticker
        /\ SumCounts(df_counts)
             = Cardinality({j \in 1..Len(df_insiders.rows) :
                              df_insiders.rows[j].Ticker # NaN})

C9_Witness ==
    /\ pc = "done"
    /\ \E j, k \in 1..Len(df_insiders.rows) :
          j # k /\ df_insiders.rows[j] = df_insiders.rows[k]
          /\ df_insiders.rows[j].Ticker = "TSLA"
    /\ \E i \in 1..Len(df_counts) :
          df_counts[i].Ticker = "TSLA" /\ df_counts[i].BuyCount = 2
    /\ \E j \in 1..Len(df_insiders.rows) : df_insiders.rows[j].Ticker = NaN

\* Earlier calls with the arguments of call j whose body ran and returned, and
\* those of them less than TTL seconds old at call j.
Stored(j) ==
    {i \in 1..(j - 1) :
        calls[i].key = calls[j].key /\ calls[i].executed /\ calls[i].status = "ok"}
Young(j) == {i \in Stored(j) : calls[j].time < calls[i].time + TTL}
Newest(S) == CHOOSE i \in S : \A k \in S : k <= i

\* C10 as stated: two returning calls with the same arguments less than TTL
\* seconds apart return the same table and attempt at most one remote fetch
\* between them.
C10_SameTableWithinTTL ==
    \A i, j \in 1..Len(calls) :
        (/\ i < j
         /\ calls[i].key = calls[j].key
         /\ calls[i].status = "ok"
         /\ calls[j].status = "ok"
         /\ calls[j].time - calls[i].time < TTL) =>
            /\ calls[i].df = calls[j].df
            /\ calls[i].remote_fetches + calls[j].remote_fetches <= 1

\* C10 amended: a call made less than TTL seconds after the last call with the
\* same arguments whose body ran and returned runs no body, attempts no remote
\* fetch and returns the table of that call, the mock fallback included; any
\* other call runs the body, with one remote fetch unless use_mock.
C10_MemoizedSinceStored ==
    \A j \in 1..Len(calls) :
        IF Young(j) # {}
        THEN /\ ~calls[j].executed
             /\ calls[j].remote_fetches = 0
             /\ calls[j].status = "ok"
             /\ calls[j].df = calls[Newest(Young(j))].df
        ELSE /\ calls[j].executed
             /\ calls[j].remote_fetches = IF calls[j].key[1] THEN 0 ELSE 1

C10_Witness ==
    \E i, j, k \in 1..Len(calls) :
        /\ i < j /\ j < k
        /\ calls[i].key = calls[j].key /\ calls[j].key = calls[k].key
        /\ calls[i].executed /\ calls[i].warned /\ calls[i].status = "ok"
        /\ ~calls[j].executed /\ calls[j].df = calls[i].df
        /\ calls[j].time > calls[i].time
        /\ calls[k].executed /\ calls[k].time = calls[i].time + TTL
====
